---- MODULE Spec2Model ----
(***************************************************************************)
(* Model of src/game-of-life.js (v0.2.3): one GameOfLife instance on a     *)
(* canvas of xLength x yLength cells, its two generation buffers, its      *)
(* interval timer and the canvas it paints.                                *)
(*                                                                         *)
(* JavaScript values are modelled by strings: a cell of the grid, and the  *)
(* flag `alive`, is "undefined", "true" or "false".  A grid is a function  *)
(* population[x][y], as in the source.  Handlers run to completion (the    *)
(* event loop runs one callback at a time): pc = "idle" between handlers,  *)
(* and the steps of advance() are the only steps taken while pc # "idle".  *)
(***************************************************************************)
EXTENDS Integers, Sequences, FiniteSets, TLC

\* Largest width and height of a modelled canvas, in cells.
MaxDim == 5

\* Largest number of cells of a modelled canvas.
MaxCells == 6

\* Largest magnitude of an offset handed to addLifeForm.
MaxOffset == 4

VARIABLES
  xLength,     \* this.xLength
  yLength,     \* this.yLength
  population,  \* this.population, the current generation
  future,      \* this.future, the next-generation buffer (NoGrid: undefined)
  shared,      \* the columns x whose object population[x] is also future[x]
  alive,       \* this.alive
  timer,       \* this.timer, the handle of the last interval (0: undefined)
  timers,      \* the interval timers the host has active
  pc,          \* "idle", or the position inside advance()
  cur,         \* advance(): number of cells the "live life" loop has done
  calls,       \* advance(): the populate/kill calls of the "update view" loop
  canvas,      \* the cells painted on the canvas
  threw,       \* the last handler ended with an uncaught TypeError
  oob          \* the last handler indexed outside [0,xLength) x [0,yLength)

vars == <<xLength, yLength, population, future, shared, alive, timer, timers,
          pc, cur, calls, canvas, threw, oob>>

----------------------------------------------------------------------------
\* JavaScript values and arithmetic

\* ToBoolean of a cell or flag value.
Truthy(v) == v = "true"

\* The % operator of JavaScript: the result takes the sign of the dividend.
\* a % 0 is NaN, a value that names no column and no row; it is modelled by
\* the index -1, which names none either.
JsMod(a, n) ==
  IF n = 0 THEN -1
  ELSE IF a >= 0 THEN a % n ELSE -((-a) % n)

\* A buffer that was never assigned.
NoGrid == <<>>

GridSizes == {wh \in (1..MaxDim) \X (1..MaxDim) : wh[1] * wh[2] <= MaxCells}

Columns == 0..(xLength - 1)
Rows == 0..(yLength - 1)
Cells == Columns \X Rows
InGrid(i, j) == i \in Columns /\ j \in Rows

\* The k-th cell (from 0) visited by `for i < xLength { for j < yLength }`.
CellAt(k) == <<k \div yLength, k % yLength>>

----------------------------------------------------------------------------
\* init(): every column is an empty array, so every cell reads undefined.

Init ==
  /\ \E wh \in GridSizes : xLength = wh[1] /\ yLength = wh[2]
  /\ population = [x \in Columns |-> [y \in Rows |-> "undefined"]]
  /\ future = NoGrid
  /\ shared = {}
  /\ alive = "undefined"
  /\ timer = 0
  /\ timers = {}
  /\ pc = "idle"
  /\ cur = 0
  /\ calls = <<>>
  /\ canvas = {}
  /\ threw = FALSE
  /\ oob = FALSE

\* defaults.cellSize
CellSize == 8

\* The width or the height of the canvas element, in pixels, from a canvas
\* smaller than one cell up to the largest grid.
CanvasSides == 0..(MaxDim * CellSize + CellSize - 1)

\* init() on a canvas of any of these sizes: the constructor has no check of
\* the dimensions, so a canvas smaller than one cell gives a grid with no
\* column or with columns of no row.
InitDim ==
  /\ \E w \in CanvasSides, h \in CanvasSides :
       /\ xLength = w \div CellSize
       /\ yLength = h \div CellSize
       /\ xLength * yLength <= MaxCells
  /\ population = [x \in Columns |-> [y \in Rows |-> "undefined"]]
  /\ future = NoGrid
  /\ shared = {}
  /\ alive = "undefined"
  /\ timer = 0
  /\ timers = {}
  /\ pc = "idle"
  /\ cur = 0
  /\ calls = <<>>
  /\ canvas = {}
  /\ threw = FALSE
  /\ oob = FALSE

----------------------------------------------------------------------------
\* The two buffers as one heap: a write through one name is seen through the
\* other name in the columns both share.

Heap == [pop |-> population, fut |-> future, shared |-> shared]

\* A write that goes to the future buffer alone, the population not seeing it
\* unless the column is shared.
SetPopulationStale(h, i, j, v) ==
  IF h.fut = NoGrid THEN h
  ELSE [h EXCEPT !.fut[i][j] = v,
                 !.pop = IF i \in h.shared THEN [h.pop EXCEPT ![i][j] = v]
                                           ELSE h.pop]

SetPopulation(h, i, j, v) ==
  [h EXCEPT !.pop[i][j] = v,
            !.fut = IF i \in h.shared THEN [h.fut EXCEPT ![i][j] = v] ELSE h.fut]

SetFuture(h, i, j, v) ==
  [h EXCEPT !.fut[i][j] = v,
            !.pop = IF i \in h.shared THEN [h.pop EXCEPT ![i][j] = v] ELSE h.pop]

----------------------------------------------------------------------------
\* neighbours(x, y): counts the (i, j) of the double loop whose wrapped cell
\* is populated, then takes one off when the cell itself is populated.

\* neighbours() of a version that lets the grid end at its edges: the cells
\* beyond an edge count as dead.
NeighboursNoWrap(pop, x, y) ==
  LET hits == {d \in (-1..1) \X (-1..1) :
                 /\ InGrid(x + d[1], y + d[2])
                 /\ Truthy(pop[x + d[1]][y + d[2]])}
  IN  Cardinality(hits) - (IF Truthy(pop[x][y]) THEN 1 ELSE 0)

\* neighbours() of the revision that lacks the `count--` for the cell itself.
NeighboursWithSelf(pop, x, y) ==
  Cardinality({d \in (-1..1) \X (-1..1) :
                 Truthy(pop[JsMod(x + d[1] + xLength, xLength)]
                           [JsMod(y + d[2] + yLength, yLength)])})

Neighbours(pop, x, y) ==
  LET hits == {d \in (-1..1) \X (-1..1) :
                 Truthy(pop[JsMod(x + d[1] + xLength, xLength)]
                           [JsMod(y + d[2] + yLength, yLength)])}
  IN  Cardinality(hits) - (IF Truthy(pop[x][y]) THEN 1 ELSE 0)

\* live() with `neighbours > 2` for `neighbours > 3`.
LiveOffByOne(h, x, y) ==
  LET neighbours == Neighbours(h.pop, x, y)
  IN  IF Truthy(h.pop[x][y]) /\ (neighbours < 2 \/ neighbours > 2)
        THEN SetFuture(h, x, y, "false")
      ELSE IF neighbours = 3
        THEN SetFuture(h, x, y, "true")
      ELSE h

\* A live() that counts the neighbours in the buffer it is writing.
LiveInPlace(h, x, y) ==
  LET neighbours == Neighbours(h.fut, x, y)
  IN  IF Truthy(h.pop[x][y]) /\ (neighbours < 2 \/ neighbours > 3)
        THEN SetFuture(h, x, y, "false")
      ELSE IF neighbours = 3
        THEN SetFuture(h, x, y, "true")
      ELSE h

\* live(x, y): reads this.population, writes this.future.
Live(h, x, y) ==
  LET neighbours == Neighbours(h.pop, x, y)
  IN  IF Truthy(h.pop[x][y]) /\ (neighbours < 2 \/ neighbours > 3)
        THEN SetFuture(h, x, y, "false")
      ELSE IF neighbours = 3
        THEN SetFuture(h, x, y, "true")
      ELSE h

\* The copy extend([], population) makes: a new outer array whose columns
\* are the objects of the source.
ShallowExtend(pop) == [grid |-> pop, shared |-> DOMAIN pop]

\* deepExtend([], population): a new outer array and a new object per column,
\* holding the same cell values; no column is shared with the source.
DeepExtend(pop) == [grid |-> pop, shared |-> {}]

----------------------------------------------------------------------------
\* toggle()

Driver == [alive |-> alive, timer |-> timer, timers |-> timers]

\* setInterval hands out a handle no active timer has.
NewTimer(active) == CHOOSE n \in 1..(Cardinality(active) + 1) : n \notin active

\* toggle() without `this.alive = true`.
ToggledNoFlag(d) ==
  IF ~Truthy(d.alive)
    THEN [alive |-> d.alive, timer |-> NewTimer(d.timers),
          timers |-> d.timers \cup {NewTimer(d.timers)}]
    ELSE [alive |-> "false", timer |-> d.timer,
          timers |-> d.timers \ {d.timer}]

\* toggle() without the clearInterval.
ToggledKeepsTimer(d) ==
  IF ~Truthy(d.alive)
    THEN [alive |-> "true", timer |-> NewTimer(d.timers),
          timers |-> d.timers \cup {NewTimer(d.timers)}]
    ELSE [alive |-> "false", timer |-> d.timer, timers |-> d.timers]

\* A toggle() that starts the interval without keeping its handle.
ToggledLosesHandle(d) ==
  IF ~Truthy(d.alive)
    THEN [alive |-> "true", timer |-> d.timer,
          timers |-> d.timers \cup {NewTimer(d.timers)}]
    ELSE [alive |-> "false", timer |-> d.timer,
          timers |-> d.timers \ {d.timer}]

\* The body of toggle() on the driver fields; clearInterval of a handle that
\* is not active does nothing.
Toggled(d) ==
  IF ~Truthy(d.alive)
    THEN [alive |-> "true", timer |-> NewTimer(d.timers),
          timers |-> d.timers \cup {NewTimer(d.timers)}]
    ELSE [alive |-> "false", timer |-> d.timer,
          timers |-> d.timers \ {d.timer}]

Toggle ==
  /\ pc = "idle"
  /\ alive' = Toggled(Driver).alive
  /\ timer' = Toggled(Driver).timer
  /\ timers' = Toggled(Driver).timers
  /\ threw' = FALSE
  /\ oob' = FALSE
  /\ UNCHANGED <<xLength, yLength, population, future, shared, pc, cur, calls,
                 canvas>>

----------------------------------------------------------------------------
\* advance(), run by the interval callback of toggle()

\* The interval fires: advance() starts with the hard copy of the population.
Tick ==
  /\ pc = "idle"
  /\ timers # {}
  /\ LET copy == DeepExtend(population)
     IN  /\ future' = copy.grid
         /\ shared' = copy.shared
  /\ pc' = IF xLength * yLength = 0 THEN "view" ELSE "live"
  /\ cur' = 0
  /\ calls' = <<>>
  /\ threw' = FALSE
  /\ oob' = FALSE
  /\ UNCHANGED <<xLength, yLength, population, alive, timer, timers, canvas>>

\* One iteration of the "live life" loop.
LiveStep ==
  /\ pc = "live"
  /\ LET h == Live(Heap, CellAt(cur)[1], CellAt(cur)[2])
     IN  /\ population' = h.pop
         /\ future' = h.fut
  /\ cur' = cur + 1
  /\ pc' = IF cur + 1 = xLength * yLength THEN "view" ELSE "live"
  /\ UNCHANGED <<xLength, yLength, shared, alive, timer, timers, calls, canvas,
                 threw, oob>>

\* An "update view" loop that repaints every cell, changed or not.
RECURSIVE ViewCallsAll(_, _, _)
ViewCallsAll(pop, fut, k) ==
  IF k >= xLength * yLength THEN <<>>
  ELSE LET i == CellAt(k)[1]
           j == CellAt(k)[2]
           here == IF Truthy(fut[i][j])
                     THEN << <<"populate", i, j>> >>
                     ELSE << <<"kill", i, j>> >>
       IN  here \o ViewCallsAll(pop, fut, k + 1)

\* An "update view" loop that paints the births and forgets the deaths.
RECURSIVE ViewCallsBirthsOnly(_, _, _)
ViewCallsBirthsOnly(pop, fut, k) ==
  IF k >= xLength * yLength THEN <<>>
  ELSE LET i == CellAt(k)[1]
           j == CellAt(k)[2]
           here == IF pop[i][j] # fut[i][j] /\ Truthy(fut[i][j])
                     THEN << <<"populate", i, j>> >>
                     ELSE <<>>
       IN  here \o ViewCallsBirthsOnly(pop, fut, k + 1)

\* The calls of the "update view" loop from its k-th cell on, in order.
RECURSIVE ViewCalls(_, _, _)
ViewCalls(pop, fut, k) ==
  IF k >= xLength * yLength THEN <<>>
  ELSE LET i == CellAt(k)[1]
           j == CellAt(k)[2]
           here == IF pop[i][j] # fut[i][j]
                     THEN IF Truthy(fut[i][j])
                            THEN << <<"populate", i, j>> >>
                            ELSE << <<"kill", i, j>> >>
                     ELSE <<>>
       IN  here \o ViewCalls(pop, fut, k + 1)

\* populate(x, y) fills the cell's square, kill(x, y) clears it.
RECURSIVE Paint(_, _, _)
Paint(cv, cs, t) ==
  IF t > Len(cs) THEN cv
  ELSE Paint(IF cs[t][1] = "populate" THEN cv \cup {<<cs[t][2], cs[t][3]>>}
                                       ELSE cv \ {<<cs[t][2], cs[t][3]>>},
             cs, t + 1)

UpdateView ==
  /\ pc = "view"
  /\ calls' = ViewCalls(population, future, 0)
  /\ canvas' = Paint(canvas, calls', 1)
  /\ pc' = "swap"
  /\ UNCHANGED <<xLength, yLength, population, future, shared, alive, timer,
                 timers, cur, threw, oob>>

\* "back to the future": this.population = this.future; advance() returns.
BackToTheFuture ==
  /\ pc = "swap"
  /\ population' = future
  /\ shared' = Columns
  /\ pc' = "idle"
  /\ cur' = 0
  /\ calls' = <<>>
  /\ UNCHANGED <<xLength, yLength, future, alive, timer, timers, canvas, threw,
                 oob>>

----------------------------------------------------------------------------
\* randomize(): the cell (i, j) is populated when the integer part of its
\* draw Math.random() * 10 is odd; of the ten integer parts one even and one
\* odd one are modelled.
Draws == {0, 1}

RandomBit(d) == d % 2

Randomize ==
  /\ pc = "idle"
  /\ \E draw \in [Cells -> Draws] :
       LET hit(i, j) == RandomBit(draw[<<i, j>>]) # 0
       IN  /\ population' =
                [i \in Columns |-> [j \in Rows |->
                   IF hit(i, j) THEN "true" ELSE population[i][j]]]
           /\ future' =
                [i \in DOMAIN future |-> [j \in Rows |->
                   IF i \in shared /\ hit(i, j) THEN "true" ELSE future[i][j]]]
           /\ canvas' = canvas \cup {c \in Cells : hit(c[1], c[2])}
  /\ threw' = FALSE
  /\ oob' = FALSE
  /\ UNCHANGED <<xLength, yLength, shared, alive, timer, timers, pc, cur,
                 calls>>

----------------------------------------------------------------------------
\* addLifeForm(x, y, coords)

\* The loop from coords[t] on.  st holds the heap, the canvas and what went
\* wrong so far.  population[i] is undefined for a column i outside the grid
\* and the assignment population[i][j] = true is then a TypeError, which ends
\* the handler; for a row j outside the grid the assignment adds a property
\* to the column object beside its cells.
RECURSIVE StampFrom(_, _, _, _, _)
StampFrom(st, x, y, coords, t) ==
  IF t > Len(coords) THEN st
  ELSE LET i == JsMod(x + coords[t][1] + xLength, xLength)
           j == JsMod(y + coords[t][2] + yLength, yLength)
           painted == IF InGrid(i, j) THEN st.canvas \cup {<<i, j>>}
                                      ELSE st.canvas
       IN  IF i \notin Columns
             THEN [st EXCEPT !.canvas = painted, !.oob = TRUE, !.threw = TRUE]
           ELSE IF j \notin Rows
             THEN StampFrom([st EXCEPT !.canvas = painted, !.oob = TRUE],
                            x, y, coords, t + 1)
           ELSE StampFrom([st EXCEPT !.canvas = painted,
                                     !.heap = SetPopulation(st.heap, i, j, "true")],
                          x, y, coords, t + 1)

AddLifeForm(x, y, coords) ==
  /\ pc = "idle"
  /\ LET st == StampFrom([heap |-> Heap, canvas |-> canvas, oob |-> FALSE,
                          threw |-> FALSE], x, y, coords, 1)
     IN  /\ population' = st.heap.pop
         /\ future' = st.heap.fut
         /\ canvas' = st.canvas
         /\ oob' = st.oob
         /\ threw' = st.threw
  /\ UNCHANGED <<xLength, yLength, shared, alive, timer, timers, pc, cur,
                 calls>>

\* The arguments the host is modelled to pass: an anchor at the first or the
\* last cell of the grid, and one or two offsets that are near or far, of
\* either sign.
Anchors == {<<0, 0>>, <<xLength - 1, yLength - 1>>}

OffsetVals == {-MaxOffset, -1, 0, 1, MaxOffset}

Offsets == OffsetVals \X OffsetVals

CoordLists ==
  {<<>>} \cup {<<p>> : p \in Offsets}
         \cup {<<p, q>> : p \in {<<1, 0>>}, q \in Offsets}

----------------------------------------------------------------------------
\* killAll()

\* extend(out, ...) assigns out[key] for every own key of its other
\* arguments.  The file is strict code (line 10): when out is a primitive,
\* such as the `true` killAll passes, the first assignment is a TypeError.
ExtendThrows(outIsPrimitive, keys) == outIsPrimitive /\ keys # {}

KillAll ==
  /\ pc = "idle"
  /\ LET wasAlive == Truthy(alive)
         stopped == IF wasAlive THEN Toggled(Driver) ELSE Driver
         restarted == IF wasAlive THEN Toggled(stopped) ELSE stopped
     IN  /\ population' = [i \in Columns |-> [j \in Rows |-> "false"]]
         /\ canvas' = canvas \ Cells
         /\ IF ExtendThrows(TRUE, Columns)
              THEN /\ future' = [i \in DOMAIN future |-> [j \in Rows |->
                                   IF i \in shared THEN "false" ELSE future[i][j]]]
                   /\ shared' = shared
                   /\ alive' = stopped.alive
                   /\ timer' = stopped.timer
                   /\ timers' = stopped.timers
                   /\ threw' = TRUE
              ELSE /\ future' = NoGrid
                   /\ shared' = {}
                   /\ alive' = restarted.alive
                   /\ timer' = restarted.timer
                   /\ timers' = restarted.timers
                   /\ threw' = FALSE
  /\ oob' = FALSE
  /\ UNCHANGED <<xLength, yLength, pc, cur, calls>>

----------------------------------------------------------------------------
Next ==
  \/ Randomize
  \/ \E a \in Anchors, coords \in CoordLists : AddLifeForm(a[1], a[2], coords)
  \/ KillAll
  \/ Toggle
  \/ Tick
  \/ LiveStep
  \/ UpdateView
  \/ BackToTheFuture

Spec == Init /\ [][Next]_vars

\* The same handlers on the grid of a canvas of any size.
SpecDim == InitDim /\ [][Next]_vars

----------------------------------------------------------------------------
\* One life form on a square grid with nothing else on it

LifeDim == 5

\* A glider whose offsets are mirrored left to right.
GliderMirrored == << <<1, 0>>, <<0, 1>>, <<2, 2>>, <<1, 2>>, <<0, 2>> >>

\* The offsets of addGlider, the example of the README.
Glider == << <<1, 0>>, <<2, 1>>, <<0, 2>>, <<1, 2>>, <<2, 2>> >>

AddGlider(x, y) == AddLifeForm(x, y, Glider)

\* Three cells in a row, as the host passes them to addLifeForm(1, 2, ...).
Blinker == << <<0, 0>>, <<1, 0>>, <<2, 0>> >>

AddBlinker == AddLifeForm(1, 2, Blinker)

\* No cell is populated.
Blank == \A c \in Cells : ~Truthy(population[c[1]][c[2]])

InitLife ==
  /\ xLength = LifeDim
  /\ yLength = LifeDim
  /\ population = [x \in Columns |-> [y \in Rows |-> "undefined"]]
  /\ future = NoGrid
  /\ shared = {}
  /\ alive = "undefined"
  /\ timer = 0
  /\ timers = {}
  /\ pc = "idle"
  /\ cur = 0
  /\ calls = <<>>
  /\ canvas = {}
  /\ threw = FALSE
  /\ oob = FALSE

NextLife ==
  \/ \E a \in Cells : Blank /\ AddGlider(a[1], a[2])
  \/ Blank /\ AddBlinker
  \/ Toggle
  \/ Tick
  \/ LiveStep
  \/ UpdateView
  \/ BackToTheFuture

SpecLife == InitLife /\ [][NextLife]_vars

\* advance() as a function of the population: the buffer the "live life"
\* loop leaves for the swap.  The loop works on a copy that shares no column
\* with the population, so live(i, j) reads the population as it was and
\* writes the one cell (i, j) of the copy.
Advanced(pop) ==
  [i \in Columns |-> [j \in Rows |->
     Live([pop |-> pop, fut |-> DeepExtend(pop).grid,
           shared |-> DeepExtend(pop).shared], i, j).fut[i][j]]]

----------------------------------------------------------------------------
\* The rule and the torus, stated without the code's arithmetic.

\* a modulo n, in 0..n-1 for every integer a.
Wrap(a, n) == a % n

Ring == ((-1..1) \X (-1..1)) \ {<<0, 0>>}

\* The live cells among the 8 wrapped neighbours of (x, y), one per offset.
LiveAround(pop, x, y) ==
  Cardinality({d \in Ring :
                 Truthy(pop[Wrap(x + d[1], xLength)][Wrap(y + d[2], yLength)])})

RuleAlive(wasAlive, n) == (wasAlive /\ n \in {2, 3}) \/ (~wasAlive /\ n = 3)

IsAlive(pop, c) == Truthy(pop[c[1]][c[2]])

InAdvance == pc \in {"live", "view", "swap"}

Running == timers # {}

\* C1: after one advance() a cell is alive iff it was alive with 2 or 3 live
\* neighbours, or dead with exactly 3, counted in the generation before.
C1_Rule ==
  [][(pc = "swap" /\ pc' = "idle") =>
       \A c \in Cells :
         IsAlive(population', c) <=>
           RuleAlive(IsAlive(population, c), LiveAround(population, c[1], c[2]))]_vars

\* An advance() that has computed a birth beside a survival.
C1_Witness ==
  /\ pc = "swap"
  /\ \E c \in Cells : ~IsAlive(population, c) /\ IsAlive(future, c)
  /\ \E c \in Cells : IsAlive(population, c) /\ IsAlive(future, c)

\* C2: during advance() the current generation is not written: the cells
\* already computed follow the rule on the generation advance() started
\* from, the others are still its copy, and the current generation is
\* replaced once, by the complete next generation.
C2_Computed ==
  InAdvance =>
    \A k \in 0..(xLength * yLength - 1) :
      IF k < cur
        THEN IsAlive(future, CellAt(k)) <=>
               RuleAlive(IsAlive(population, CellAt(k)),
                         LiveAround(population, CellAt(k)[1], CellAt(k)[2]))
        ELSE future[CellAt(k)[1]][CellAt(k)[2]]
               = population[CellAt(k)[1]][CellAt(k)[2]]

C2_Atomic ==
  /\ []C2_Computed
  /\ [][(InAdvance \/ pc' # "idle") =>
          \/ population' = population
          \/ pc = "swap" /\ cur = xLength * yLength /\ population' = future]_vars

\* In the middle of the loop, with a cell of the next generation changed.
C2_Witness ==
  /\ pc = "live"
  /\ cur > 0
  /\ cur < xLength * yLength
  /\ future # population

\* C3: the neighbour count of a cell is the same whether the cell itself is
\* alive or dead, on every grid.
C3_CentreExcluded ==
  \A c \in Cells :
    Neighbours([population EXCEPT ![c[1]][c[2]] = "true"], c[1], c[2])
      = Neighbours([population EXCEPT ![c[1]][c[2]] = "false"], c[1], c[2])

\* C4: addLifeForm wraps every coordinate into the grid: it indexes no
\* column or row outside it and does not fail.
C4_Total ==
  [][(\E a \in Anchors, coords \in CoordLists : AddLifeForm(a[1], a[2], coords))
       => (~threw' /\ ~oob')]_vars

\* C5: the neighbour count of (x, y) is the number of live cells at
\* ((x+dx) mod width, (y+dy) mod height) over the 8 offsets, and a live
\* (0,0) is counted for the three opposite corners.
C5_Toroidal ==
  /\ \A c \in Cells :
       Neighbours(population, c[1], c[2]) = LiveAround(population, c[1], c[2])
  /\ Truthy(population[0][0]) =>
       \A c \in {<<xLength - 1, yLength - 1>>, <<xLength - 1, 0>>,
                 <<0, yLength - 1>>} :
         Neighbours(population, c[1], c[2])
           > Neighbours([population EXCEPT ![0][0] = "false"], c[1], c[2])

\* Only (0,0) lives, on a grid where the three corners are three other cells.
C5_Witness ==
  /\ xLength = 3
  /\ yLength = 2
  /\ \A c \in Cells : IsAlive(population, c) <=> c = <<0, 0>>

\* C6: addLifeForm leaves every wrapped target alive and every other cell, the
\* grid size and the timer as they were.
C6_AdditiveStamp ==
  [][\A a \in Anchors, coords \in CoordLists :
       AddLifeForm(a[1], a[2], coords) =>
         LET targets == {<<Wrap(a[1] + coords[t][1], xLength),
                           Wrap(a[2] + coords[t][2], yLength)>> :
                           t \in 1..Len(coords)}
         IN  /\ \A c \in targets : IsAlive(population', c)
             /\ \A c \in Cells \ targets :
                  IsAlive(population', c) <=> IsAlive(population, c)
             /\ UNCHANGED <<xLength, yLength, alive, timer, timers>>]_vars

\* How often fn is called for cell c in the sequence cs.
Count(cs, fn, c) ==
  Cardinality({t \in 1..Len(cs) : cs[t] = <<fn, c[1], c[2]>>})

\* C7: advance() calls populate once for each cell that comes alive, kill
\* once for each cell that dies, and neither for any other cell.
C7_DiffMinimal ==
  /\ pc \in {"live", "view"} => calls = <<>>
  /\ pc = "swap" =>
       \A c \in Cells :
         /\ Count(calls, "populate", c)
              = IF ~IsAlive(population, c) /\ IsAlive(future, c) THEN 1 ELSE 0
         /\ Count(calls, "kill", c)
              = IF IsAlive(population, c) /\ ~IsAlive(future, c) THEN 1 ELSE 0

\* A redraw with a populate, a kill and a cell that is left alone.
C7_Witness ==
  /\ pc = "swap"
  /\ \E t \in 1..Len(calls) : calls[t][1] = "populate"
  /\ \E t \in 1..Len(calls) : calls[t][1] = "kill"
  /\ \E c \in Cells : /\ IsAlive(population, c) <=> IsAlive(future, c)
                      /\ Count(calls, "populate", c) = 0
                      /\ Count(calls, "kill", c) = 0

\* C8: killAll leaves every cell dead and completes normally.
C8_KillAll ==
  [][KillAll => (~threw' /\ \A c \in Cells : ~IsAlive(population', c))]_vars

\* C9: toggle() starts a stopped driver, stops a running one, and changes no
\* cell.
C9_Flip ==
  [][Toggle =>
       /\ (~Truthy(alive) /\ ~Running) => (Truthy(alive') /\ Running')
       /\ (Truthy(alive) /\ Running) => (~Truthy(alive') /\ ~Running')
       /\ Truthy(alive') <=> ~Truthy(alive)
       /\ population' = population]_vars

\* Started, then stopped again by a handler that ended normally.
C9_Witness ==
  /\ alive = "false"
  /\ timer # 0
  /\ timers = {}
  /\ ~threw
  /\ \E c \in Cells : IsAlive(population, c)

\* C10: advance() runs only for a running driver, started by a firing of its
\* timer and one at a time; the grid of a stopped driver changes in no step
\* of advance() and in no toggle(), which leaves addLifeForm, randomize and
\* killAll.
C10_OnlyTicks ==
  /\ [](InAdvance => (Truthy(alive) /\ Running))
  /\ [][(pc = "idle" /\ pc' # "idle") => (Running /\ Truthy(alive) /\ Tick)]_vars
  /\ [][(~Truthy(alive) /\ population' # population) =>
          ~(Toggle \/ Tick \/ LiveStep \/ UpdateView \/ BackToTheFuture)]_vars

\* A driver that has advanced the grid and was stopped, with life left.
C10_Witness ==
  /\ alive = "false"
  /\ future # NoGrid
  /\ pc = "idle"
  /\ \E c \in Cells : IsAlive(population, c)

\* C14: the neighbour count of every cell is an integer from 0 to 8, with
\* the cell itself alive or dead.
C14_Range ==
  \A c \in Cells :
    /\ Neighbours(population, c[1], c[2]) \in 0..8
    /\ Neighbours([population EXCEPT ![c[1]][c[2]] = "true"], c[1], c[2]) \in 0..8
    /\ Neighbours([population EXCEPT ![c[1]][c[2]] = "false"], c[1], c[2]) \in 0..8

\* A live cell with the full count of 8 beside a grid where a dead cell has it.
C14_Witness ==
  /\ xLength * yLength > 1
  /\ \E c \in Cells : IsAlive(population, c)
                        /\ Neighbours(population, c[1], c[2]) = 8
  /\ \E c \in Cells :
       Neighbours([population EXCEPT ![c[1]][c[2]] = "false"], c[1], c[2]) = 8

\* C16: killAll() leaves the driver as it found it: a running simulation is
\* running again afterwards with exactly one interval, a stopped one stays
\* stopped.
C16_KeepsDriver ==
  [][KillAll =>
       /\ Truthy(alive') <=> Truthy(alive)
       /\ Running' <=> Running
       /\ Running => Cardinality(timers') = 1]_vars

\* C17: between handlers, a cell is painted on the canvas exactly when it is
\* alive in the population.
C17_ViewModel ==
  pc = "idle" => canvas = {c \in Cells : IsAlive(population, c)}

\* An advance has happened, killAll() has not just run, and the grid holds
\* painted cells beside cells that died.
C17_Witness ==
  /\ pc = "idle"
  /\ future # NoGrid
  /\ canvas # {}
  /\ \E c \in Cells : population[c[1]][c[2]] = "false" /\ c \notin canvas

\* C18: at most one interval is active, one is active exactly when the alive
\* flag is set, and the active one is the one this.timer names.
C18_OneTimer ==
  /\ Cardinality(timers) <= 1
  /\ Running <=> Truthy(alive)
  /\ Running => timers = {timer}

\* Restarted by toggle() on the grid that killAll() cleared after an advance.
C18_Witness ==
  /\ Running
  /\ Truthy(alive)
  /\ future # NoGrid
  /\ \A c \in Cells : population[c[1]][c[2]] = "false"

\* C15: an advance() runs to completion with no other handler in between,
\* every cell a handler paints between two ticks is alive in this.population
\* when the handler returns, and the next advance() starts from a copy of
\* that population, so that what was stamped is in the generation it reads.
C15_NoLostStamp ==
  /\ [][InAdvance => (LiveStep \/ UpdateView \/ BackToTheFuture)]_vars
  /\ [][(pc = "idle" /\ pc' = "idle") =>
          \A c \in canvas' \ canvas : IsAlive(population', c)]_vars
  /\ [][Tick => /\ population' = population
                /\ future' = population
                /\ \A c \in canvas : IsAlive(future', c)]_vars

\* The next advance() starts on a grid that was advanced or cleared before
\* and holds painted cells.
C15_Witness ==
  /\ pc = "live"
  /\ cur = 0
  /\ canvas # {}
  /\ \A c \in canvas : IsAlive(population, c) /\ IsAlive(future, c)
  /\ \E c \in Cells : population[c[1]][c[2]] = "false"

\* C11: no instance has a grid with a zero dimension, construction on a
\* canvas smaller than one cell having failed instead.
C11_InvalidDimension == xLength >= 1 /\ yLength >= 1

\* The live cells of a grid, and the cells of a glider stamped at (x, y).
LiveSet(pop) == {c \in Cells : IsAlive(pop, c)}

GliderAt(x, y) ==
  {<<Wrap(x + Glider[t][1], xLength), Wrap(y + Glider[t][2], yLength)>> :
     t \in 1..Len(Glider)}

\* C12: stamping the glider at any anchor of the empty grid leaves exactly
\* its five cells alive; a grid that holds exactly the glider of an anchor
\* holds, four advance() later, exactly the glider of the anchor one cell
\* further right and down; and each advance() of the simulation is the
\* function the four are counted with.
C12_GliderDrift ==
  /\ [][\A a \in Cells :
          (Blank /\ AddGlider(a[1], a[2])) =>
            LiveSet(population') = GliderAt(a[1], a[2])]_vars
  /\ [](\A a \in Cells :
          LiveSet(population) = GliderAt(a[1], a[2]) =>
            \A g1 \in {Advanced(population)} :
              \A g2 \in {Advanced(g1)} :
                \A g3 \in {Advanced(g2)} :
                  \A g4 \in {Advanced(g3)} :
                    LiveSet(g4) = GliderAt(a[1] + 1, a[2] + 1))
  /\ [](pc = "swap" => future = Advanced(population))

\* The advance() that completes the glider one cell right and down of the
\* first anchor.
C12_Witness ==
  /\ pc = "swap"
  /\ LiveSet(future) = GliderAt(1, 1)
  /\ LiveSet(population) # LiveSet(future)
  /\ Cardinality(LiveSet(future)) = 5

BlinkerAcross == {<<1, 2>>, <<2, 2>>, <<3, 2>>}
BlinkerUpright == {<<2, 1>>, <<2, 2>>, <<2, 3>>}

\* C13: advance() takes the blinker lying across (1,2),(2,2),(3,2) to the
\* upright one on (2,1),(2,2),(2,3), and the upright one back.
C13_Blinker ==
  pc = "swap" =>
    /\ LiveSet(population) = BlinkerAcross => LiveSet(future) = BlinkerUpright
    /\ LiveSet(population) = BlinkerUpright => LiveSet(future) = BlinkerAcross

\* The second advance(), back to the blinker that was stamped.
C13_Witness ==
  /\ pc = "swap"
  /\ LiveSet(population) = BlinkerUpright
  /\ LiveSet(future) = BlinkerAcross

====
